---- MODULE Spec2Model ----
(***************************************************************************)
(* A model of bamliquidator_internal/normalize_plot_and_summarize.py: the  *)
(* tables of the HDF5 counts file, the module-level file_names memo, and   *)
(* the functions that normalize, rank, aggregate, summarize and sort.      *)
(*                                                                         *)
(* Floating point numbers are modelled as exact rationals <<n, d>> in      *)
(* lowest terms with d > 0; NaN (numpy's 0/0) is <<0, 0>>.                 *)
(***************************************************************************)
EXTENDS Integers, Sequences, FiniteSets, TLC

VARIABLES
    counts,             \* the bin_counts / region_counts table (rows in scan order)
    normalized_counts,  \* the normalized_counts table
    summary,            \* the summary table
    sorted_summary,     \* the sorted_summary table
    tables,             \* names of the tables present in the file's root group
    file_to_count,      \* the file -> total count mapping handed to normalize
    file_names_memo,    \* the module-level memo of file_names
    pc,                 \* where the caller is
    err,                \* the exception that ended the last call ("none" if none)
    dirty,              \* tables holding appended or updated rows not yet flushed
    readDirty,          \* whether some scan has read a table while it was dirty
    call,               \* what the last populate_percentiles / file_names call saw and did
    run,                \* runs of normalize_plot_and_summarize started (or calls returned)
    cell_types_left,    \* cell types the current run still has to process
    chromosomes_left,   \* chromosomes the current run still has to summarize
    current_cell_type,  \* the cell type the current run is processing
    current_file_names, \* its files, in the order the loops visit the set
    files_left,         \* the files of it still to be ranked
    first               \* what the first run left behind

vars == <<counts, normalized_counts, summary, sorted_summary, tables, file_to_count,
          file_names_memo, pc, err, dirty, readDirty, call, run, cell_types_left,
          chromosomes_left, current_cell_type, current_file_names, files_left, first>>

----------------------------------------------------------------------------
(* Bounds of the model. *)

MaxRows == 3

----------------------------------------------------------------------------
(* Exact rational arithmetic standing for the floats of the program. *)

NaN == <<0, 0>>

Abs(n) == IF n < 0 THEN -n ELSE n

RECURSIVE GCD(_, _)
GCD(a, b) == IF b = 0 THEN a ELSE GCD(b, a % b)

Rat(n, d) ==
    IF d = 0 THEN NaN
    ELSE LET g == GCD(Abs(n), Abs(d))
             s == IF d < 0 THEN -1 ELSE 1
         IN  <<(s * n) \div g, (s * d) \div g>>

IsNaN(x) == x[2] = 0

RatInt(n) == <<n, 1>>

RatMul(x, y) == IF IsNaN(x) \/ IsNaN(y) THEN NaN ELSE Rat(x[1] * y[1], x[2] * y[2])

\* x / y for y # 0 (the callers raise ZeroDivisionError, or yield NaN, before dividing by 0)
RatDiv(x, y) == IF IsNaN(x) \/ IsNaN(y) THEN NaN ELSE Rat(x[1] * y[2], x[2] * y[1])

RatAdd(x, y) ==
    IF IsNaN(x) \/ IsNaN(y) THEN NaN ELSE Rat(x[1] * y[2] + y[1] * x[2], x[2] * y[2])

\* x >= y; every comparison with NaN is false
RatGeq(x, y) == ~IsNaN(x) /\ ~IsNaN(y) /\ x[1] * y[2] >= y[1] * x[2]

RatLess(x, y) == ~IsNaN(x) /\ ~IsNaN(y) /\ x[1] * y[2] < y[1] * x[2]

----------------------------------------------------------------------------
(* Generic helpers. *)

Range(s) == {s[i] : i \in 1..Len(s)}

\* the indices i at which match[i] holds, in scan order: the rows a Table.where yields
RECURSIVE WhereFrom(_, _)
WhereFrom(match, i) ==
    IF i > Len(match) THEN <<>>
    ELSE (IF match[i] THEN <<i>> ELSE <<>>) \o WhereFrom(match, i + 1)

Where(match) == WhereFrom(match, 1)

SeqsUpTo(S, n) == UNION {[1..k -> S] : k \in 0..n}

NoCall == [name |-> "none", cell_type |-> "", file_name |-> "", chromosome |-> "",
           gathered |-> <<>>, written |-> <<>>, ret |-> {}]

NoFirst == [pc |-> "none", tables |-> {}, normalized_counts |-> <<>>, summary |-> <<>>,
            sorted_summary |-> <<>>]

----------------------------------------------------------------------------
(* Flush bookkeeping: a call is a sequence of table operations               *)
(* <<"scan" | "write" | "flush", table>>, in program order.                  *)

RECURSIVE RunOps(_, _, _)
RunOps(ops, d, rd) ==
    IF ops = <<>> THEN [dirty |-> d, readDirty |-> rd]
    ELSE LET op == Head(ops) IN
         CASE op[1] = "scan"  -> RunOps(Tail(ops), d, rd \/ op[2] \in d)
           [] op[1] = "write" -> RunOps(Tail(ops), d \cup {op[2]}, rd)
           [] OTHER           -> RunOps(Tail(ops), d \ {op[2]}, rd)

----------------------------------------------------------------------------
(* normalize(region_counts, file_to_count), lines 146-162. *)

\* one step of the loop over the rows; file_name and total_count are the loop's
\* memory of the last file looked up ("" stands for None)
RECURSIVE NormalizeFromStale(_, _, _, _, _)
NormalizeFromStale(rows, i, file_name, total_count, ftc) ==
    IF i > Len(rows) THEN [rows |-> rows, err |-> "none", updated |-> i - 1]
    ELSE LET row == rows[i]
             lookup == file_name = ""
         IN  IF lookup /\ row.file_name \notin DOMAIN ftc
             THEN [rows |-> rows, err |-> "KeyError", updated |-> i - 1]
             ELSE LET tc == IF lookup THEN ftc[row.file_name] ELSE total_count
                      region_size == row.stop - row.start
                  IN  IF region_size = 0 \/ tc = 0
                      THEN [rows |-> rows, err |-> "ZeroDivisionError", updated |-> i - 1]
                      ELSE LET factor == RatMul(RatDiv(RatInt(1), RatInt(region_size)),
                                                RatDiv(RatInt(1), RatDiv(RatInt(tc), RatInt(10^6))))
                               new == [row EXCEPT !.normalized_count =
                                                      RatMul(RatInt(row.count), factor)]
                           IN  NormalizeFromStale([rows EXCEPT ![i] = new], i + 1,
                                                  row.file_name, tc, ftc)

RECURSIVE NormalizeFrom(_, _, _, _, _)
NormalizeFrom(rows, i, file_name, total_count, ftc) ==
    IF i > Len(rows) THEN [rows |-> rows, err |-> "none", updated |-> i - 1]
    ELSE LET row == rows[i]
             lookup == row.file_name # file_name
         IN  IF lookup /\ row.file_name \notin DOMAIN ftc
             THEN [rows |-> rows, err |-> "KeyError", updated |-> i - 1]
             ELSE LET tc == IF lookup THEN ftc[row.file_name] ELSE total_count
                      region_size == row.stop - row.start
                  IN  IF region_size = 0 \/ tc = 0
                      THEN [rows |-> rows, err |-> "ZeroDivisionError", updated |-> i - 1]
                      ELSE LET factor == RatMul(RatDiv(RatInt(1), RatInt(region_size)),
                                                RatDiv(RatInt(1), RatDiv(RatInt(tc), RatInt(10^6))))
                               new == [row EXCEPT !.normalized_count =
                                                      RatMul(RatInt(row.count), factor)]
                           IN  NormalizeFrom([rows EXCEPT ![i] = new], i + 1,
                                             row.file_name, tc, ftc)

NormalizeOps(res) ==
    <<<<"scan", "bin_counts">>>>
    \o (IF res.updated > 0 THEN <<<<"write", "bin_counts">>>> ELSE <<>>)
    \o (IF res.err = "none" THEN <<<<"flush", "bin_counts">>>> ELSE <<>>)

normalize ==
    /\ pc = "ready"
    /\ LET res == NormalizeFrom(counts, 1, "", 0, file_to_count)
           fl  == RunOps(NormalizeOps(res), dirty, readDirty)
       IN  /\ counts' = res.rows
           /\ err' = res.err
           /\ pc' = IF res.err = "none" THEN "normalized" ELSE "error"
           /\ dirty' = fl.dirty
           /\ readDirty' = fl.readDirty
    /\ UNCHANGED <<normalized_counts, summary, sorted_summary, tables, file_to_count,
                   file_names_memo, call, run, cell_types_left, chromosomes_left,
                   current_cell_type, current_file_names, files_left, first>>

\* the regions handed to normalize
RegionFiles == {"f1", "f2"}
RegionSizes == {0, 1, 2}
RegionCounts == {1, 3}
Totals == {0, 1000000, 2000000}

RegionRows ==
    {[bin_number |-> 0, cell_type |-> "A", chromosome |-> "chr1", file_name |-> f,
      start |-> 10, stop |-> 10 + sz, count |-> c, normalized_count |-> RatInt(0)] :
        f \in RegionFiles, sz \in RegionSizes, c \in RegionCounts}

InitCommon ==
    /\ summary = <<>>
    /\ sorted_summary = <<>>
    /\ file_names_memo = <<>>
    /\ err = "none"
    /\ dirty = {}
    /\ readDirty = FALSE
    /\ call = NoCall
    /\ run = 0
    /\ cell_types_left = {}
    /\ current_cell_type = ""
    /\ current_file_names = <<>>
    /\ files_left = <<>>
    /\ first = NoFirst

InitNormalize ==
    /\ InitCommon
    /\ chromosomes_left = <<>>
    /\ normalized_counts = <<>>
    /\ counts \in SeqsUpTo(RegionRows, MaxRows)
    /\ tables = {"bin_counts"}
    /\ file_to_count \in UNION {[D -> Totals] : D \in {RegionFiles, {"f1"}}}
    /\ pc = "ready"

SpecNormalize == InitNormalize /\ [][normalize]_vars

\* C1: after normalize completes, every row holds
\* normalized_count = count / (stop - start) / (file_to_count[file_name] / 10^6), with the
\* total of the row's own file whatever the order of the rows; a row whose region is twice
\* as large, or whose file's total is twice as large, holds half the value.
NormalizedCountOf(row) ==
    RatDiv(RatDiv(RatInt(row.count), RatInt(row.stop - row.start)),
           RatDiv(RatInt(file_to_count[row.file_name]), RatInt(10^6)))

C1_Normalize ==
    pc = "normalized" =>
        /\ \A i \in 1..Len(counts) :
              /\ counts[i].file_name \in DOMAIN file_to_count
              /\ counts[i].normalized_count = NormalizedCountOf(counts[i])
        /\ \A i, j \in 1..Len(counts) :
              LET a == counts[i]
                  b == counts[j]
              IN  /\ (/\ a.count = b.count
                      /\ a.file_name = b.file_name
                      /\ b.stop - b.start = 2 * (a.stop - a.start))
                        => RatMul(RatInt(2), b.normalized_count) = a.normalized_count
                  /\ (/\ a.count = b.count
                      /\ a.stop - a.start = b.stop - b.start
                      /\ file_to_count[b.file_name] = 2 * file_to_count[a.file_name])
                        => RatMul(RatInt(2), b.normalized_count) = a.normalized_count

\* rows of two files interleaved, with different totals, all normalized
C1_Witness ==
    /\ pc = "normalized"
    /\ Len(counts) = 3
    /\ counts[1].file_name = "f1" /\ counts[2].file_name = "f2" /\ counts[3].file_name = "f1"
    /\ file_to_count["f1"] # file_to_count["f2"]
    /\ counts[3].stop - counts[3].start = 2 * (counts[1].stop - counts[1].start)

----------------------------------------------------------------------------
(* populate_percentiles(normalized_counts, counts, cell_type, file_name), lines 165-183. *)

\* twice scipy.stats.rankdata's rank of values[i]: ties get the average of their ranks
Rank2(values, i) ==
    2 * Cardinality({j \in 1..Len(values) : RatLess(values[j], values[i])})
    + Cardinality({j \in 1..Len(values) : values[j] = values[i]}) + 1

\* a variant dividing by N instead of N - 1
PercentilesByN(values) ==
    [i \in 1..Len(values) |->
        RatMul(RatDiv(Rat(Rank2(values, i) - 2, 2), RatInt(Len(values))), RatInt(100))]

\* (rankdata(values) - 1) / (len(values) - 1) * 100, a numpy division: 0/0 is NaN
Percentiles(values) ==
    [i \in 1..Len(values) |->
        IF Len(values) - 1 = 0
        THEN NaN
        ELSE RatMul(RatDiv(Rat(Rank2(values, i) - 2, 2), RatInt(Len(values) - 1)),
                    RatInt(100))]

\* the loop of lines 179-182 from its k-th row on: idx are the rows of the output table
\* that satisfy the condition
RECURSIVE WritePercentiles(_, _, _, _, _)
WritePercentiles(nc, idx, k, bin_numbers, percentiles) ==
    IF k > Len(idx) THEN [rows |-> nc, err |-> "none", updated |-> k - 1]
    ELSE IF k > Len(bin_numbers) THEN [rows |-> nc, err |-> "IndexError", updated |-> k - 1]
    ELSE IF bin_numbers[k] # nc[idx[k]].bin_number
         THEN [rows |-> nc, err |-> "AssertionError", updated |-> k - 1]
    ELSE WritePercentiles([nc EXCEPT ![idx[k]].percentile = percentiles[k]], idx, k + 1,
                          bin_numbers, percentiles)

InGroup(row, cell_type, file_name) == row.cell_type = cell_type /\ row.file_name = file_name

\* table.where("(cell_type == '%s') & (file_name == '%s')")
GroupWhere(t, cell_type, file_name) ==
    Where([i \in 1..Len(t) |-> InGroup(t[i], cell_type, file_name)])

PercentilesCall(nc, cnt, cell_type, file_name) ==
    LET inIdx == GroupWhere(cnt, cell_type, file_name)
        bin_numbers == [k \in 1..Len(inIdx) |-> cnt[inIdx[k]].bin_number]
        normalized_count_list == [k \in 1..Len(inIdx) |-> cnt[inIdx[k]].normalized_count]
        outIdx == GroupWhere(nc, cell_type, file_name)
        res == WritePercentiles(nc, outIdx, 1, bin_numbers,
                                Percentiles(normalized_count_list))
    IN  [rows |-> res.rows, err |-> res.err, updated |-> res.updated,
         gathered |-> bin_numbers,
         written |-> [k \in 1..res.updated |-> nc[outIdx[k]].bin_number]]

PercentilesOps(res) ==
    <<<<"scan", "bin_counts">>, <<"scan", "normalized_counts">>>>
    \o (IF res.updated > 0 THEN <<<<"write", "normalized_counts">>>> ELSE <<>>)
    \o (IF res.err = "none" THEN <<<<"flush", "normalized_counts">>>> ELSE <<>>)

PercentilesRecord(res, cell_type, file_name) ==
    [name |-> "populate_percentiles", cell_type |-> cell_type, file_name |-> file_name,
     chromosome |-> "", gathered |-> res.gathered, written |-> res.written, ret |-> {}]

populate_percentiles(cell_type, file_name) ==
    /\ pc = "ready"
    /\ LET res == PercentilesCall(normalized_counts, counts, cell_type, file_name)
           fl  == RunOps(PercentilesOps(res), dirty, readDirty)
       IN  /\ normalized_counts' = res.rows
           /\ err' = res.err
           /\ pc' = IF res.err = "none" THEN "ranked" ELSE "error"
           /\ call' = PercentilesRecord(res, cell_type, file_name)
           /\ dirty' = fl.dirty
           /\ readDirty' = fl.readDirty
    /\ UNCHANGED <<counts, summary, sorted_summary, tables, file_to_count,
                   file_names_memo, run, cell_types_left, chromosomes_left,
                   current_cell_type, current_file_names, files_left, first>>

\* the tables handed to populate_percentiles
MaxGroup == 3
RankFiles == {"f1", "f2"}
RankBins == {0, 1}
RankValues == {1, 2, 3}

RankInRows ==
    {[bin_number |-> b, cell_type |-> "A", chromosome |-> "chr1", file_name |-> "f1",
      start |-> 0, stop |-> 1, count |-> v, normalized_count |-> RatInt(v)] :
        b \in RankBins, v \in RankValues}
    \cup {[bin_number |-> 0, cell_type |-> "A", chromosome |-> "chr1", file_name |-> "f2",
            start |-> 0, stop |-> 1, count |-> 1, normalized_count |-> RatInt(1)]}

RankOutRows ==
    {[bin_number |-> b, cell_type |-> "A", chromosome |-> "chr1", file_name |-> "f1",
      count |-> RatInt(0), percentile |-> RatInt(-1)] : b \in RankBins}
    \cup {[bin_number |-> 0, cell_type |-> "A", chromosome |-> "chr1", file_name |-> "f2",
            count |-> RatInt(0), percentile |-> RatInt(-1)]}

InitPercentiles ==
    /\ InitCommon
    /\ chromosomes_left = <<>>
    /\ counts \in SeqsUpTo(RankInRows, MaxGroup)
    /\ normalized_counts \in SeqsUpTo(RankOutRows, MaxGroup)
    /\ tables = {"bin_counts", "normalized_counts"}
    /\ file_to_count = <<>>
    /\ pc = "ready"

NextPercentiles == \E f \in RankFiles : populate_percentiles("A", f)

SpecPercentiles == InitPercentiles /\ [][NextPercentiles]_vars

\* the values gathered from the input table and the rows of the output table for the
\* group of the last populate_percentiles call
GroupValues ==
    LET idx == GroupWhere(counts, call.cell_type, call.file_name)
    IN  [k \in 1..Len(idx) |-> counts[idx[k]].normalized_count]

GroupRows ==
    LET idx == GroupWhere(normalized_counts, call.cell_type, call.file_name)
    IN  [k \in 1..Len(idx) |-> normalized_counts[idx[k]]]

Distinct(values) == \A i, j \in 1..Len(values) : i # j => values[i] # values[j]

Less(values, i) == Cardinality({j \in 1..Len(values) : RatLess(values[j], values[i])})
Equal(values, i) == Cardinality({j \in 1..Len(values) : values[j] = values[i]})

----------------------------------------------------------------------------
(* populate_normalized_counts_for_cell_type(normalized_counts, cell_type, file_names), *)
(* lines 186-226.  file_names arrives as a sequence: the order in which the loop of    *)
(* line 190 visits the set.                                                           *)

NoSums == [sums |-> <<>>, order |-> <<>>, err |-> "none"]

\* lines 192-198 from the k-th row of one file on; acc.sums is chromosome_to_summed_counts
\* (a function on the chromosomes inserted so far), acc.order its insertion order
RECURSIVE SumRows(_, _, _, _, _)
SumRows(nc, idx, k, processed_a_single_file, acc) ==
    IF k > Len(idx) \/ acc.err # "none" THEN acc
    ELSE LET row == nc[idx[k]]
             c == row.chromosome
         IN  IF processed_a_single_file
             THEN IF c \notin DOMAIN acc.sums
                  THEN [acc EXCEPT !.err = "KeyError"]
                  ELSE IF row.bin_number + 1 > Len(acc.sums[c])
                  THEN [acc EXCEPT !.err = "IndexError"]
                  ELSE SumRows(nc, idx, k + 1, processed_a_single_file,
                               [acc EXCEPT !.sums[c][row.bin_number + 1] = RatAdd(@, row.count)])
             ELSE LET known == c \in DOMAIN acc.sums
                      sums1 == IF known THEN acc.sums ELSE acc.sums @@ (c :> <<>>)
                      order1 == IF known THEN acc.order ELSE Append(acc.order, c)
                  IN  SumRows(nc, idx, k + 1, processed_a_single_file,
                              [acc EXCEPT !.sums = [sums1 EXCEPT ![c] = Append(@, row.count)],
                                          !.order = order1])

\* the loop of lines 190-199 from the f-th file on
RECURSIVE SumFiles(_, _, _, _, _)
SumFiles(nc, cell_type, files, f, acc) ==
    IF f > Len(files) \/ acc.err # "none" THEN acc
    ELSE SumFiles(nc, cell_type, files, f + 1,
                  SumRows(nc, GroupWhere(nc, cell_type, files[f]), 1, f > 1, acc))

\* lines 209-219: one row per position of each chromosome's list, numbered by position
RECURSIVE PlaceholderRows(_, _, _)
PlaceholderRows(cell_type, sums, order) ==
    IF order = <<>> THEN <<>>
    ELSE [i \in 1..Len(sums[Head(order)]) |->
             [bin_number |-> i - 1, cell_type |-> cell_type, chromosome |-> Head(order),
              file_name |-> "*", count |-> RatInt(-1), percentile |-> RatInt(-1)]]
         \o PlaceholderRows(cell_type, sums, Tail(order))

\* lines 222-224 from the k-th aggregate row on
RECURSIVE UpdateAverages(_, _, _, _, _)
UpdateAverages(nc, idx, k, sums, n) ==
    IF k > Len(idx) THEN [rows |-> nc, err |-> "none", updated |-> k - 1]
    ELSE LET row == nc[idx[k]] IN
         IF row.chromosome \notin DOMAIN sums
         THEN [rows |-> nc, err |-> "KeyError", updated |-> k - 1]
         ELSE IF row.bin_number + 1 > Len(sums[row.chromosome])
         THEN [rows |-> nc, err |-> "IndexError", updated |-> k - 1]
         ELSE IF n = 0
         THEN [rows |-> nc, err |-> "ZeroDivisionError", updated |-> k - 1]
         ELSE UpdateAverages(
                 [nc EXCEPT ![idx[k]].count =
                     RatDiv(sums[row.chromosome][row.bin_number + 1], RatInt(n))],
                 idx, k + 1, sums, n)

\* a variant without the flush of line 220
CellTypeOpsNoFlush(files, summed, prior, appended, res) ==
    [f \in 1..Len(files) |-> <<"scan", "normalized_counts">>]
    \o (IF summed.err # "none" THEN <<>>
        ELSE <<<<"scan", "normalized_counts">>>>
             \o (IF prior THEN <<>>
                 ELSE (IF appended # <<>> THEN <<<<"write", "normalized_counts">>>> ELSE <<>>))
             \o <<<<"scan", "normalized_counts">>>>
             \o (IF res.updated > 0 THEN <<<<"write", "normalized_counts">>>> ELSE <<>>)
             \o (IF res.err = "none" THEN <<<<"flush", "normalized_counts">>>> ELSE <<>>))

CellTypeOps(files, summed, prior, appended, res) ==
    [f \in 1..Len(files) |-> <<"scan", "normalized_counts">>]
    \o (IF summed.err # "none" THEN <<>>
        ELSE <<<<"scan", "normalized_counts">>>>
             \o (IF prior THEN <<>>
                 ELSE (IF appended # <<>> THEN <<<<"write", "normalized_counts">>>> ELSE <<>>)
                      \o <<<<"flush", "normalized_counts">>>>)
             \o <<<<"scan", "normalized_counts">>>>
             \o (IF res.updated > 0 THEN <<<<"write", "normalized_counts">>>> ELSE <<>>)
             \o (IF res.err = "none" THEN <<<<"flush", "normalized_counts">>>> ELSE <<>>))

CellTypeCall(nc, cell_type, files) ==
    LET summed == SumFiles(nc, cell_type, files, 1, NoSums)
        prior_normalized_cell_type_rows_found == GroupWhere(nc, cell_type, "*") # <<>>
        appended == IF prior_normalized_cell_type_rows_found THEN <<>>
                    ELSE PlaceholderRows(cell_type, summed.sums, summed.order)
        nc1 == nc \o appended
        res == UpdateAverages(nc1, GroupWhere(nc1, cell_type, "*"), 1, summed.sums, Len(files))
    IN  IF summed.err # "none"
        THEN [rows |-> nc, err |-> summed.err,
              ops |-> CellTypeOps(files, summed, FALSE, <<>>, [updated |-> 0, err |-> summed.err])]
        ELSE [rows |-> res.rows, err |-> res.err,
              ops |-> CellTypeOps(files, summed, prior_normalized_cell_type_rows_found,
                                  appended, res)]

CellTypeRecord(cell_type, files) ==
    [name |-> "populate_normalized_counts_for_cell_type", cell_type |-> cell_type,
     file_name |-> "*", chromosome |-> "", gathered |-> <<>>, written |-> <<>>,
     ret |-> Range(files)]

populate_normalized_counts_for_cell_type(cell_type, files) ==
    /\ pc = "ready"
    /\ LET res == CellTypeCall(normalized_counts, cell_type, files)
           fl  == RunOps(res.ops, dirty, readDirty)
       IN  /\ normalized_counts' = res.rows
           /\ err' = res.err
           /\ pc' = IF res.err = "none" THEN "aggregated" ELSE "error"
           /\ call' = CellTypeRecord(cell_type, files)
           /\ dirty' = fl.dirty
           /\ readDirty' = fl.readDirty
    /\ UNCHANGED <<counts, summary, sorted_summary, tables, file_to_count,
                   file_names_memo, run, cell_types_left, chromosomes_left,
                   current_cell_type, current_file_names, files_left, first>>

\* the orders in which a loop may visit the set S
Orders(S) == {q \in [1..Cardinality(S) -> S] : Range(q) = S}

\* the tables handed to populate_normalized_counts_for_cell_type; they have the count
\* column the function reads and writes (lines 194, 198, 217, 223), which the table of
\* create_normalized_counts_table (lines 52-57) does not declare
MaxCellRows == 3
CellFiles == {"f1", "f2"}
CellBins == {0, 1, 2}
CellCounts == {1, 3}

CellRows ==
    {[bin_number |-> b, cell_type |-> "A", chromosome |-> "chr1", file_name |-> f,
      count |-> RatInt(v), percentile |-> RatInt(-1)] :
        b \in CellBins, f \in CellFiles, v \in CellCounts}
    \cup {[bin_number |-> b, cell_type |-> "A", chromosome |-> "chr1", file_name |-> "*",
            count |-> RatInt(-1), percentile |-> RatInt(-1)] : b \in CellBins}
    \cup {[bin_number |-> 0, cell_type |-> "A", chromosome |-> "chr2", file_name |-> "f1",
            count |-> RatInt(1), percentile |-> RatInt(-1)]}

InitCellType ==
    /\ InitCommon
    /\ chromosomes_left = <<>>
    /\ counts = <<>>
    /\ normalized_counts \in SeqsUpTo(CellRows, MaxCellRows)
    /\ tables = {"bin_counts", "normalized_counts"}
    /\ file_to_count = <<>>
    /\ pc = "ready"

NextCellType ==
    \E F \in SUBSET CellFiles : \E files \in Orders(F) :
        populate_normalized_counts_for_cell_type("A", files)

SpecCellType == InitCellType /\ [][NextCellType]_vars

\* the (chromosome, bin_number) pairs the files of the last call cover for its cell type
Covered ==
    {<<normalized_counts[i].chromosome, normalized_counts[i].bin_number>> :
        i \in {j \in 1..Len(normalized_counts) :
                  /\ normalized_counts[j].cell_type = call.cell_type
                  /\ normalized_counts[j].file_name \in call.ret}}

RECURSIVE SumCountsFrom(_, _, _, _)
SumCountsFrom(i, cell_type, files, cb) ==
    IF i > Len(normalized_counts) THEN RatInt(0)
    ELSE LET row == normalized_counts[i]
             rest == SumCountsFrom(i + 1, cell_type, files, cb)
         IN  IF /\ row.cell_type = cell_type
                /\ row.file_name \in files
                /\ <<row.chromosome, row.bin_number>> = cb
             THEN RatAdd(row.count, rest)
             ELSE rest

AggregateRows(cell_type, cb) ==
    {i \in 1..Len(normalized_counts) :
        /\ normalized_counts[i].cell_type = cell_type
        /\ normalized_counts[i].file_name = "*"
        /\ <<normalized_counts[i].chromosome, normalized_counts[i].bin_number>> = cb}

\* C5: after a completed populate_normalized_counts_for_cell_type the table holds, for each
\* (chromosome, bin_number) the cell type's files cover, exactly one "*" row of the cell
\* type, whose count is the sum of the files' counts there divided by the number of files.
C5_CellTypeAverage ==
    pc = "aggregated" =>
        \A cb \in Covered :
            /\ Cardinality(AggregateRows(call.cell_type, cb)) = 1
            /\ \A i \in AggregateRows(call.cell_type, cb) :
                  normalized_counts[i].count =
                      RatDiv(SumCountsFrom(1, call.cell_type, call.ret, cb),
                             RatInt(Cardinality(call.ret)))

----------------------------------------------------------------------------
(* populate_summary(summary, normalized_counts, chromosome), lines 249-312. *)

high == 95
low == 5

\* the rows of lines 268-295 that fall in one bin: aggregate ("*") rows or per-file rows
BinRows(nc, chromosome, bin_number, aggregate) ==
    {i \in 1..Len(nc) :
        /\ nc[i].chromosome = chromosome
        /\ nc[i].bin_number = bin_number
        /\ (nc[i].file_name = "*") = aggregate}

\* summed_cell_type_percentiles_by_bin[bin_number], added up in scan order
RECURSIVE SummedPercentiles(_, _, _, _)
SummedPercentiles(nc, chromosome, bin_number, i) ==
    IF i > Len(nc) THEN RatInt(0)
    ELSE IF i \in BinRows(nc, chromosome, bin_number, TRUE)
         THEN RatAdd(nc[i].percentile, SummedPercentiles(nc, chromosome, bin_number, i + 1))
         ELSE SummedPercentiles(nc, chromosome, bin_number, i + 1)

\* the if/else of lines 276-295: a row is counted as gte when percentile >= threshold
\* and as lt otherwise (so a NaN percentile counts as lt)
Gte(nc, rows, threshold) ==
    Cardinality({i \in rows : RatGeq(nc[i].percentile, RatInt(threshold))})

Lt(nc, rows, threshold) ==
    Cardinality({i \in rows : ~RatGeq(nc[i].percentile, RatInt(threshold))})

\* a variant whose lines_lt_95th counter tests the low threshold
SummaryRowSlip(nc, chromosome, bin_number, n_cell_types) ==
    LET ct == BinRows(nc, chromosome, bin_number, TRUE)
        ln == BinRows(nc, chromosome, bin_number, FALSE)
    IN  [bin_number |-> bin_number, chromosome |-> chromosome,
         avg_cell_type_percentile |->
             RatDiv(SummedPercentiles(nc, chromosome, bin_number, 1), RatInt(n_cell_types)),
         cell_types_gte_95th_percentile |-> Gte(nc, ct, high),
         cell_types_lt_95th_percentile |-> Lt(nc, ct, high),
         lines_gte_95th_percentile |-> Gte(nc, ln, high),
         lines_lt_95th_percentile |-> Lt(nc, ln, low),
         cell_types_gte_5th_percentile |-> Gte(nc, ct, low),
         cell_types_lt_5th_percentile |-> Lt(nc, ct, low),
         lines_gte_5th_percentile |-> Gte(nc, ln, low),
         lines_lt_5th_percentile |-> Lt(nc, ln, low)]

\* the row appended at lines 300-311
SummaryRow(nc, chromosome, bin_number, n_cell_types) ==
    LET ct == BinRows(nc, chromosome, bin_number, TRUE)
        ln == BinRows(nc, chromosome, bin_number, FALSE)
    IN  [bin_number |-> bin_number, chromosome |-> chromosome,
         avg_cell_type_percentile |->
             RatDiv(SummedPercentiles(nc, chromosome, bin_number, 1), RatInt(n_cell_types)),
         cell_types_gte_95th_percentile |-> Gte(nc, ct, high),
         cell_types_lt_95th_percentile |-> Lt(nc, ct, high),
         lines_gte_95th_percentile |-> Gte(nc, ln, high),
         lines_lt_95th_percentile |-> Lt(nc, ln, high),
         cell_types_gte_5th_percentile |-> Gte(nc, ct, low),
         cell_types_lt_5th_percentile |-> Lt(nc, ct, low),
         lines_gte_5th_percentile |-> Gte(nc, ln, low),
         lines_lt_5th_percentile |-> Lt(nc, ln, low)]

SetMax(S) == CHOOSE x \in S : \A y \in S : y <= x

\* the rows the call appends to summary, or the ZeroDivisionError of line 302 when the
\* chromosome has no aggregate row (len(cell_types) = 0), raised before any append
SummaryCall(nc, chromosome) ==
    LET rows == {i \in 1..Len(nc) : nc[i].chromosome = chromosome}
        max_bin == SetMax({0} \cup {nc[i].bin_number : i \in rows})
        cell_types == {nc[i].cell_type : i \in {j \in rows : nc[j].file_name = "*"}}
    IN  IF Cardinality(cell_types) = 0
        THEN [rows |-> <<>>, err |-> "ZeroDivisionError"]
        ELSE [rows |-> [b \in 1..(max_bin + 1) |->
                           SummaryRow(nc, chromosome, b - 1, Cardinality(cell_types))],
              err |-> "none"]

SummaryOps(res) ==
    <<<<"scan", "normalized_counts">>>>
    \o (IF res.err = "none" THEN <<<<"write", "summary">>, <<"flush", "summary">>>> ELSE <<>>)

SummaryRecord(chromosome) ==
    [name |-> "populate_summary", cell_type |-> "", file_name |-> "",
     chromosome |-> chromosome, gathered |-> <<>>, written |-> <<>>, ret |-> {}]

populate_summary(chromosome) ==
    /\ pc = "ready"
    /\ LET res == SummaryCall(normalized_counts, chromosome)
           fl  == RunOps(SummaryOps(res), dirty, readDirty)
       IN  /\ summary' = summary \o res.rows
           /\ err' = res.err
           /\ pc' = IF res.err = "none" THEN "summarized" ELSE "error"
           /\ call' = SummaryRecord(chromosome)
           /\ dirty' = fl.dirty
           /\ readDirty' = fl.readDirty
    /\ UNCHANGED <<counts, normalized_counts, sorted_summary, tables, file_to_count,
                   file_names_memo, run, cell_types_left, chromosomes_left,
                   current_cell_type, current_file_names, files_left, first>>

\* the tables handed to populate_summary
MaxSummaryRows == 3
SummaryCellTypes == {"A", "B"}
SummaryBins == {0, 1}
SummaryFiles == {"*", "f1"}
SummaryPercentiles == {RatInt(0), RatInt(50), RatInt(95)}

SummaryInRows ==
    {[bin_number |-> b, cell_type |-> ct, chromosome |-> "chr1", file_name |-> f,
      count |-> RatInt(1), percentile |-> p] :
        b \in SummaryBins, ct \in SummaryCellTypes, f \in SummaryFiles,
        p \in SummaryPercentiles}
    \cup {[bin_number |-> 0, cell_type |-> "A", chromosome |-> "chr1", file_name |-> f,
            count |-> RatInt(1), percentile |-> NaN] : f \in SummaryFiles}
    \cup {[bin_number |-> 0, cell_type |-> "A", chromosome |-> "chr2", file_name |-> "*",
            count |-> RatInt(1), percentile |-> RatInt(95)]}

InitSummary ==
    /\ InitCommon
    /\ chromosomes_left = <<>>
    /\ counts = <<>>
    /\ normalized_counts \in SeqsUpTo(SummaryInRows, MaxSummaryRows)
    /\ tables = {"bin_counts", "normalized_counts", "summary"}
    /\ file_to_count = <<>>
    /\ pc = "ready"

NextSummary == \E c \in {"chr1", "chr2"} : populate_summary(c)

SpecSummary == InitSummary /\ [][NextSummary]_vars

\* C3: in every summary row written for a (chromosome, bin) the gte and lt counters of
\* the cell types add up to the number of aggregate rows of that chromosome and bin, and
\* those of the lines to the number of per-file rows, for the 95th and the 5th percentile.
C3_SummaryCounts ==
    pc = "summarized" =>
        \A k \in 1..Len(summary) :
            LET r == summary[k]
                ct == Cardinality(BinRows(normalized_counts, r.chromosome, r.bin_number, TRUE))
                ln == Cardinality(BinRows(normalized_counts, r.chromosome, r.bin_number, FALSE))
            IN  /\ r.cell_types_gte_95th_percentile + r.cell_types_lt_95th_percentile = ct
                /\ r.lines_gte_95th_percentile + r.lines_lt_95th_percentile = ln
                /\ r.cell_types_gte_5th_percentile + r.cell_types_lt_5th_percentile = ct
                /\ r.lines_gte_5th_percentile + r.lines_lt_5th_percentile = ln

\* a summary row counting aggregate rows on both sides of the 95th and per-file rows
C3_Witness ==
    /\ pc = "summarized"
    /\ \E k \in 1..Len(summary) :
          /\ summary[k].cell_types_gte_95th_percentile = 1
          /\ summary[k].cell_types_lt_95th_percentile = 1
          /\ summary[k].lines_lt_95th_percentile = 1
          /\ summary[k].lines_gte_5th_percentile = 0

\* C9: populate_summary writes one row per bin_number from 0 to the largest bin seen for
\* the chromosome, and each row's avg_cell_type_percentile is the sum of the percentiles
\* of the aggregate rows at that bin divided by their number, also when some cell type has
\* no aggregate row at a bin (stated for the tables in which every bin up to the largest
\* has an aggregate row, where that division is defined).
C9_MeanPerBin ==
    LET c == call.chromosome
        bins == {normalized_counts[i].bin_number :
                    i \in {j \in 1..Len(normalized_counts) :
                              normalized_counts[j].chromosome = c}}
        all == 0..SetMax({0} \cup bins)
    IN  (/\ pc = "summarized"
         /\ \A b \in all : BinRows(normalized_counts, c, b, TRUE) # {})
        => /\ Len(summary) = Cardinality(all)
           /\ \A k \in 1..Len(summary) :
                 /\ summary[k].bin_number = k - 1
                 /\ summary[k].chromosome = c
                 /\ summary[k].avg_cell_type_percentile =
                       RatDiv(SummedPercentiles(normalized_counts, c, k - 1, 1),
                              RatInt(Cardinality(BinRows(normalized_counts, c, k - 1, TRUE))))

----------------------------------------------------------------------------
(* all_cell_types, all_chromosomes and file_names, lines 65-94. *)

all_cell_types(cnt) == {cnt[i].cell_type : i \in 1..Len(cnt)}

\* the keys of the OrderedDict: the chromosomes in order of first appearance
RECURSIVE all_chromosomes(_)
all_chromosomes(cnt) ==
    IF cnt = <<>> THEN <<>>
    ELSE LET front == all_chromosomes(SubSeq(cnt, 1, Len(cnt) - 1))
             c == cnt[Len(cnt)].chromosome
         IN  IF c \in Range(front) THEN front ELSE Append(front, c)

\* the scan of lines 84-88
FileNamesOf(cnt, cell_type) ==
    {cnt[i].file_name : i \in {j \in 1..Len(cnt) : cnt[j].cell_type = cell_type}}

\* file_names(counts, cell_type): the value returned and the memo it leaves
FileNamesCall(memo, cnt, cell_type) ==
    IF cell_type \in DOMAIN memo
    THEN [ret |-> memo[cell_type], memo |-> memo, scanned |-> FALSE]
    ELSE [ret |-> FileNamesOf(cnt, cell_type),
          memo |-> memo @@ (cell_type :> FileNamesOf(cnt, cell_type)),
          scanned |-> TRUE]

FileNamesRecord(cell_type, ret) ==
    [name |-> "file_names", cell_type |-> cell_type, file_name |-> "", chromosome |-> "",
     gathered |-> <<>>, written |-> <<>>, ret |-> ret]

----------------------------------------------------------------------------
(* normalize_plot_and_summarize(counts_file, ...), lines 314-364, one action per step. *)
(* An exception ends the run (pc = "error"); a caller may run again in the same       *)
(* process, on the same file.                                                         *)

MaxRuns == 2

EndOfRun == [pc |-> pc, tables |-> tables, normalized_counts |-> normalized_counts,
             summary |-> summary, sorted_summary |-> sorted_summary]

\* lines 315-323: delete_all_but_bin_counts_table, the two tables created empty and
\* flushed, and the scans of all_cell_types and all_chromosomes
PipelineStart ==
    /\ pc \in {"idle", "done", "error"}
    /\ run < MaxRuns
    /\ run' = run + 1
    /\ first' = IF run = 1 THEN EndOfRun ELSE first
    /\ tables' = {"bin_counts", "normalized_counts", "summary"}
    /\ normalized_counts' = <<>>
    /\ summary' = <<>>
    /\ sorted_summary' = <<>>
    /\ LET fl == RunOps(<<<<"flush", "normalized_counts">>, <<"flush", "summary">>,
                          <<"flush", "sorted_summary">>,
                          <<"scan", "bin_counts">>, <<"scan", "bin_counts">>>>,
                        dirty, readDirty)
       IN  dirty' = fl.dirty /\ readDirty' = fl.readDirty
    /\ cell_types_left' = all_cell_types(counts)
    /\ chromosomes_left' = all_chromosomes(counts)
    /\ current_cell_type' = ""
    /\ current_file_names' = <<>>
    /\ files_left' = <<>>
    /\ err' = "none"
    /\ call' = NoCall
    /\ pc' = "cell_types"
    /\ UNCHANGED <<counts, file_to_count, file_names_memo>>

\* lines 329-331: the next cell type of the set and its file names
PipelineFileNames ==
    /\ pc = "cell_types"
    /\ \E ct \in cell_types_left :
          LET res == FileNamesCall(file_names_memo, counts, ct)
              fl  == RunOps(IF res.scanned THEN <<<<"scan", "bin_counts">>>> ELSE <<>>,
                            dirty, readDirty)
          IN  /\ file_names_memo' = res.memo
              /\ current_cell_type' = ct
              /\ cell_types_left' = cell_types_left \ {ct}
              /\ \E order \in Orders(res.ret) :
                    current_file_names' = order /\ files_left' = order
              /\ call' = FileNamesRecord(ct, res.ret)
              /\ dirty' = fl.dirty
              /\ readDirty' = fl.readDirty
    /\ pc' = "files"
    /\ UNCHANGED <<counts, normalized_counts, summary, sorted_summary, tables,
                   file_to_count, err, run, chromosomes_left, first>>

\* lines 332-333: populate_percentiles for the next file of the cell type
PipelinePercentiles ==
    /\ pc = "files"
    /\ files_left # <<>>
    /\ LET res == PercentilesCall(normalized_counts, counts, current_cell_type,
                                  Head(files_left))
           fl  == RunOps(PercentilesOps(res), dirty, readDirty)
       IN  /\ normalized_counts' = res.rows
           /\ err' = res.err
           /\ pc' = IF res.err = "none" THEN "files" ELSE "error"
           /\ call' = PercentilesRecord(res, current_cell_type, Head(files_left))
           /\ dirty' = fl.dirty
           /\ readDirty' = fl.readDirty
    /\ files_left' = Tail(files_left)
    /\ UNCHANGED <<counts, summary, sorted_summary, tables, file_to_count,
                   file_names_memo, run, cell_types_left, chromosomes_left,
                   current_cell_type, current_file_names, first>>

\* line 334: populate_normalized_counts_for_cell_type
PipelineCellType ==
    /\ pc = "files"
    /\ files_left = <<>>
    /\ LET res == CellTypeCall(normalized_counts, current_cell_type, current_file_names)
           fl  == RunOps(res.ops, dirty, readDirty)
       IN  /\ normalized_counts' = res.rows
           /\ err' = res.err
           /\ pc' = IF res.err = "none" THEN "aggregate" ELSE "error"
           /\ call' = CellTypeRecord(current_cell_type, current_file_names)
           /\ dirty' = fl.dirty
           /\ readDirty' = fl.readDirty
    /\ UNCHANGED <<counts, summary, sorted_summary, tables, file_to_count,
                   file_names_memo, run, cell_types_left, chromosomes_left,
                   current_cell_type, current_file_names, files_left, first>>

\* line 335: populate_percentiles for the cell type's "*" rows
PipelineAggregatePercentiles ==
    /\ pc = "aggregate"
    /\ LET res == PercentilesCall(normalized_counts, counts, current_cell_type, "*")
           fl  == RunOps(PercentilesOps(res), dirty, readDirty)
       IN  /\ normalized_counts' = res.rows
           /\ err' = res.err
           /\ pc' = IF res.err = "none" THEN "cell_types" ELSE "error"
           /\ call' = PercentilesRecord(res, current_cell_type, "*")
           /\ dirty' = fl.dirty
           /\ readDirty' = fl.readDirty
    /\ UNCHANGED <<counts, summary, sorted_summary, tables, file_to_count,
                   file_names_memo, run, cell_types_left, chromosomes_left,
                   current_cell_type, current_file_names, files_left, first>>

\* lines 337-347: the indexes on normalized_counts and the plots, which only read
PipelineIndexAndPlot ==
    /\ pc = "cell_types"
    /\ cell_types_left = {}
    /\ LET fl == RunOps(<<<<"scan", "normalized_counts">>, <<"scan", "bin_counts">>>>,
                        dirty, readDirty)
       IN  dirty' = fl.dirty /\ readDirty' = fl.readDirty
    /\ pc' = "summarizing"
    /\ UNCHANGED <<counts, normalized_counts, summary, sorted_summary, tables,
                   file_to_count, file_names_memo, err, call, run, cell_types_left,
                   chromosomes_left, current_cell_type, current_file_names, files_left,
                   first>>

\* lines 350-351: populate_summary for the next chromosome
PipelineSummary ==
    /\ pc = "summarizing"
    /\ chromosomes_left # <<>>
    /\ LET res == SummaryCall(normalized_counts, Head(chromosomes_left))
           fl  == RunOps(SummaryOps(res), dirty, readDirty)
       IN  /\ summary' = summary \o res.rows
           /\ err' = res.err
           /\ pc' = IF res.err = "none" THEN "summarizing" ELSE "error"
           /\ call' = SummaryRecord(Head(chromosomes_left))
           /\ dirty' = fl.dirty
           /\ readDirty' = fl.readDirty
    /\ chromosomes_left' = Tail(chromosomes_left)
    /\ UNCHANGED <<counts, normalized_counts, sorted_summary, tables, file_to_count,
                   file_names_memo, run, cell_types_left, current_cell_type,
                   current_file_names, files_left, first>>

\* the rows in ascending order of avg_cell_type_percentile, as the completely sorted
\* index of line 352 orders them (rows with equal keys keep their table order)
RECURSIVE Insert(_, _)
Insert(sorted, row) ==
    IF sorted = <<>> THEN <<row>>
    ELSE IF RatLess(row.avg_cell_type_percentile, Head(sorted).avg_cell_type_percentile)
         THEN <<row>> \o sorted
         ELSE <<Head(sorted)>> \o Insert(Tail(sorted), row)

RECURSIVE SortedIndex(_)
SortedIndex(rows) ==
    IF rows = <<>> THEN <<>>
    ELSE Insert(SortedIndex(SubSeq(rows, 1, Len(rows) - 1)), rows[Len(rows)])

Reverse(rows) == [i \in 1..Len(rows) |-> rows[Len(rows) + 1 - i]]

\* a variant that copies in the order of the index, without step=-1
SortedCopyAscending(rows) == SortedIndex(rows)

\* summary.copy(sortby=avg_cell_type_percentile, step=-1), lines 361-363
SortedCopy(rows) == Reverse(SortedIndex(rows))

\* lines 352-364: the sorted index, the sorted copy and its index
PipelineSort ==
    /\ pc = "summarizing"
    /\ chromosomes_left = <<>>
    /\ sorted_summary' = SortedCopy(summary)
    /\ tables' = tables \cup {"sorted_summary"}
    /\ LET fl == RunOps(<<<<"scan", "summary">>, <<"scan", "summary">>,
                          <<"scan", "sorted_summary">>>>, dirty, readDirty)
       IN  dirty' = fl.dirty /\ readDirty' = fl.readDirty
    /\ pc' = "done"
    /\ UNCHANGED <<counts, normalized_counts, summary, file_to_count, file_names_memo,
                   err, call, run, cell_types_left, chromosomes_left, current_cell_type,
                   current_file_names, files_left, first>>

\* the bin_counts tables of the counts file
MaxBinRows == 2
BinCountRows ==
    {[bin_number |-> b, cell_type |-> ct, chromosome |-> c, file_name |-> f,
      start |-> 0, stop |-> 1, count |-> v, normalized_count |-> RatInt(v)] :
        b \in {0, 1}, ct \in {"A", "B"}, c \in {"chr1", "chr2"}, f \in {"f1", "f2"},
        v \in {1, 2}}

Init ==
    /\ InitCommon
    /\ chromosomes_left = <<>>
    /\ counts \in SeqsUpTo(BinCountRows, MaxBinRows)
    /\ normalized_counts \in {<<>>}
    /\ tables \in {{"bin_counts"}, {"bin_counts", "normalized_counts", "summary",
                                    "sorted_summary"}}
    /\ file_to_count = <<>>
    /\ pc = "idle"

Next ==
    \/ PipelineStart
    \/ PipelineFileNames
    \/ PipelinePercentiles
    \/ PipelineCellType
    \/ PipelineAggregatePercentiles
    \/ PipelineIndexAndPlot
    \/ PipelineSummary
    \/ PipelineSort

Spec == Init /\ [][Next]_vars

RunEnded == pc \in {"done", "error"}

\* C4: a second run on the same file, bin_counts table and totals completes and leaves
\* normalized_counts and summary tables identical to those of the first run.
C4_SecondRunIdentical ==
    (run = 2 /\ RunEnded) =>
        /\ pc = "done"
        /\ normalized_counts = first.normalized_counts
        /\ summary = first.summary
        /\ sorted_summary = first.sorted_summary
        /\ tables = first.tables

\* C8: in every populate_percentiles call of the run the rows gathered from the input
\* table and the rows written in the output table correspond one for one: equally many,
\* the same bin_number at the same position, no assertion failure and no index error.
C8_RowsCorrespond ==
    call.name = "populate_percentiles" =>
        /\ err = "none"
        /\ Len(call.written) = Len(call.gathered)
        /\ \A i \in 1..Len(call.written) : call.written[i] = call.gathered[i]

----------------------------------------------------------------------------
(* The block of lines 349-364 on any content of normalized_counts. *)

MaxSortRows == 3
SortPercentiles == {RatInt(0), RatInt(50), RatInt(100)}

SortInRows ==
    {[bin_number |-> b, cell_type |-> ct, chromosome |-> "chr1", file_name |-> "*",
      count |-> RatInt(1), percentile |-> p] :
        b \in {0, 1}, ct \in {"A", "B"}, p \in SortPercentiles}
    \cup {[bin_number |-> 0, cell_type |-> "A", chromosome |-> "chr2", file_name |-> "*",
            count |-> RatInt(1), percentile |-> p] : p \in {RatInt(0), RatInt(100)}}

InitSort ==
    /\ InitCommon
    /\ counts = <<>>
    /\ normalized_counts \in SeqsUpTo(SortInRows, MaxSortRows)
    /\ chromosomes_left \in UNION {Orders(S) : S \in SUBSET {"chr1", "chr2"}}
    /\ tables = {"bin_counts", "normalized_counts", "summary"}
    /\ file_to_count = <<>>
    /\ pc = "summarizing"

NextSort == PipelineSummary \/ PipelineSort

SpecSort == InitSort /\ [][NextSort]_vars

Occurrences(rows, r) == Cardinality({i \in 1..Len(rows) : rows[i] = r})

----------------------------------------------------------------------------
(* file_names(counts, cell_type) called by any caller, on any table. *)

file_names(cell_type) ==
    /\ pc \in {"ready", "returned"}
    /\ LET res == FileNamesCall(file_names_memo, counts, cell_type)
           fl  == RunOps(IF res.scanned THEN <<<<"scan", "bin_counts">>>> ELSE <<>>,
                         dirty, readDirty)
       IN  /\ file_names_memo' = res.memo
           /\ call' = FileNamesRecord(cell_type, res.ret)
           /\ dirty' = fl.dirty
           /\ readDirty' = fl.readDirty
    /\ pc' = "returned"
    /\ UNCHANGED <<counts, normalized_counts, summary, sorted_summary, tables,
                   file_to_count, err, run, cell_types_left, chromosomes_left,
                   current_cell_type, current_file_names, files_left, first>>

MaxNameRows == 2
NameRows ==
    {[bin_number |-> 0, cell_type |-> ct, chromosome |-> "chr1", file_name |-> f,
      start |-> 0, stop |-> 1, count |-> 1, normalized_count |-> RatInt(1)] :
        ct \in {"A", "B"}, f \in {"f1", "f2"}}

\* the caller opens another counts file, or the rows of the table change
OtherTable ==
    /\ pc = "returned"
    /\ counts' \in SeqsUpTo(NameRows, MaxNameRows) \ {counts}
    /\ pc' = "ready"
    /\ UNCHANGED <<normalized_counts, summary, sorted_summary, tables, file_to_count,
                   file_names_memo, err, dirty, readDirty, call, run, cell_types_left,
                   chromosomes_left, current_cell_type, current_file_names, files_left,
                   first>>

InitFileNames ==
    /\ InitCommon
    /\ chromosomes_left = <<>>
    /\ counts \in SeqsUpTo(NameRows, MaxNameRows)
    /\ normalized_counts = <<>>
    /\ tables = {"bin_counts"}
    /\ file_to_count = <<>>
    /\ pc = "ready"

NextFileNames == (\E ct \in {"A", "B"} : file_names(ct)) \/ OtherTable

SpecFileNames == InitFileNames /\ [][NextFileNames]_vars

\* C10: each file_names call returns exactly the file_name values of the rows of the
\* table passed to it whose cell_type matches, whatever was called before.
C10_FileNamesOfTable ==
    pc = "returned" => call.ret = FileNamesOf(counts, call.cell_type)

----------------------------------------------------------------------------
(* The phases called one after another by a caller that stops at the first exception. *)

MaxCalls == 2
MaxPhaseRows == 2

PhaseInRows ==
    {[bin_number |-> b, cell_type |-> "A", chromosome |-> "chr1", file_name |-> "f1",
      start |-> 0, stop |-> 1, count |-> v, normalized_count |-> RatInt(v)] :
        b \in {0, 1}, v \in {1, 2}}

PhaseOutRows ==
    {[bin_number |-> b, cell_type |-> "A", chromosome |-> "chr1", file_name |-> f,
      count |-> RatInt(1), percentile |-> RatInt(-1)] :
        b \in {0, 1}, f \in {"f1", "*"}}

\* the call returned and the caller goes on to its next call
Return ==
    /\ pc \in {"normalized", "ranked", "aggregated", "summarized"}
    /\ run < MaxCalls
    /\ run' = run + 1
    /\ pc' = "ready"
    /\ UNCHANGED <<counts, normalized_counts, summary, sorted_summary, tables,
                   file_to_count, file_names_memo, err, dirty, readDirty, call,
                   cell_types_left, chromosomes_left, current_cell_type,
                   current_file_names, files_left, first>>

InitPhases ==
    /\ InitCommon
    /\ chromosomes_left = <<>>
    /\ counts \in SeqsUpTo(PhaseInRows, MaxPhaseRows)
    /\ normalized_counts \in SeqsUpTo(PhaseOutRows, MaxPhaseRows)
    /\ tables = {"bin_counts", "normalized_counts", "summary"}
    /\ file_to_count = [f \in {"f1"} |-> 1000000]
    /\ pc = "ready"

NextPhases ==
    \/ normalize
    \/ \E f \in {"f1", "*"} : populate_percentiles("A", f)
    \/ \E files \in {<<>>, <<"f1">>} : populate_normalized_counts_for_cell_type("A", files)
    \/ populate_summary("chr1")
    \/ Return

SpecPhases == InitPhases /\ [][NextPhases]_vars

\* C7: no scan ever reads a table that holds appended or updated rows not yet flushed,
\* and every phase that completes leaves the tables it wrote flushed.
C7_FlushedBeforeRead ==
    /\ ~readDirty
    /\ pc \in {"ready", "normalized", "ranked", "aggregated", "summarized"} => dirty = {}

\* the aggregator appended "*" rows, flushed, scanned them again to update them, flushed
C7_Witness ==
    /\ pc = "aggregated"
    /\ Len(normalized_counts) > MaxPhaseRows
    /\ \E i \in 1..Len(normalized_counts) :
          /\ normalized_counts[i].file_name = "*"
          /\ normalized_counts[i].count # RatInt(-1)
    /\ ~readDirty
    /\ dirty = {}

====
